---- MODULE Spec2Model ----
(***************************************************************************)
(* The shopping-list Worker (src/index.ts): one fetch handler that routes  *)
(* an HTTP request to one operation on the remote "shopping_list"          *)
(* collection.  Each request is a process that advances from one await to  *)
(* the next; the remote collection is the only state requests share.       *)
(*                                                                         *)
(* JavaScript values are written as strings: "true" and "false" are the    *)
(* two booleans, "null" is null, "undefined" is undefined (an absent       *)
(* property), every other string is a JavaScript string.                   *)
(***************************************************************************)
EXTENDS Naturals, Sequences, FiniteSets

\* ---------------------------------------------------------------- bounds
\* Number of identifiers the remote store can assign (inserts stop after).
MaxIds == 2
\* Number of requests that can be in flight at the same time.
MaxReq == 2

\* ---------------------------------------------------------------- values
Undefined == "undefined"
Null == "null"
JTrue == "true"
JFalse == "false"
Booleans == {JTrue, JFalse}

\* Identifiers the store hands out, in order: 24 hexadecimal characters each.
OID == <<"65f000000000000000000001", "65f000000000000000000002",
         "65f000000000000000000003", "65f000000000000000000004">>
ObjectIds == {OID[i] : i \in 1..MaxIds}
\* A value of the 'id' parameter that is no 12-byte / 24-hex identifier.
MalformedId == "milk"

Names == {"Milk", "Eggs"}
Quantities == {"1L", "2L"}
\* Values a JSON body can give "purchased": undefined is the omitted key.
PurchasedInputs == {Undefined, Null, JFalse, JTrue, "yes"}

\* The API keys the authentication service knows / does not know.
GoodKey == "key-good"
BadKey == "key-bad"
\* The 'authorization' header: null when absent, "" when present and empty.
Tokens == {Null, "", GoodKey, BadKey}

Methods == {"GET", "POST", "PATCH", "PUT", "DELETE", "OPTIONS"}

\* url.pathname, as its sequence of separators and segments.
Target == <<"/", "api", "/", "shopping_list">>
Pathnames == {Target, Target \o <<"/">>, Target \o <<"/", "/">>, <<"/", "api">>}

\* url.searchParams.get('id'): null when the parameter is absent.
IdParams == {Null, MalformedId} \cup ObjectIds

\* A request body: ok is FALSE when the text is not JSON.
Body(ok, n, p, q) == [ok |-> ok, name |-> n, purchased |-> p, quantity |-> q]
MalformedBody == Body(FALSE, Undefined, Undefined, Undefined)
DefaultBody == Body(TRUE, "Milk", Undefined, "1L")
PostBodies == {Body(TRUE, n, p, q) : n \in Names, p \in PurchasedInputs, q \in Quantities}
                 \cup {MalformedBody}
PutBodies == {Body(TRUE, n, p, q) : n \in {Undefined, "Eggs"}, p \in PurchasedInputs,
                                    q \in {Undefined, "2L"}}
                 \cup {MalformedBody}

Request(m, p, i, t, b) == [method |-> m, pathname |-> p, id |-> i, token |-> t, body |-> b]
NoRequest == Request("", <<>>, Null, Null, MalformedBody)

\* The requests of the routing scenario: every combination of method, path,
\* id and header, with one body.
Requests ==
    {Request(m, p, i, t, DefaultBody) : m \in Methods, p \in Pathnames, i \in IdParams, t \in Tokens}

\* The requests of the body scenario: an accepted key on the resource path,
\* with every body on the two methods that read it.
FieldRequests ==
    {Request(m, Target, i, GoodKey, DefaultBody) : m \in Methods \ {"POST", "PUT"}, i \in IdParams}
    \cup {Request("POST", Target, Null, GoodKey, b) : b \in PostBodies}
    \cup {Request("PUT", Target, i, GoodKey, b) : i \in IdParams, b \in PutBodies}

\* The requests of the concurrent scenario: same handler, fewer inputs.
ConcRequests ==
    {Request(m, Target, i, GoodKey, DefaultBody) : m \in {"GET", "POST", "PATCH", "DELETE"},
                                                   i \in {OID[1]}}
    \cup {Request("PUT", Target, OID[1], GoodKey, Body(TRUE, Undefined, JTrue, Undefined))}
    \cup {Request("OPTIONS", Target, Null, t, DefaultBody) : t \in {Null, BadKey, GoodKey}}
    \cup {Request("GET", <<"/", "api">>, Null, GoodKey, DefaultBody)}

Slots == 1..MaxReq

VARIABLES
    collection,   \* the remote collection: stored _id -> document
    nextId,       \* how many identifiers the store has assigned
    undefinedAs,  \* how the client library encodes an undefined property
    slots,        \* the requests in flight, each at its await
    last,         \* the request that has just completed, with its response
    toggled,      \* the PATCH that toggled last, while nothing wrote since
    deleted       \* identifiers removed by a deleteOne that matched

vars == <<collection, nextId, undefinedAs, slots, last, toggled, deleted>>

\* ---------------------------------------------------------------- responses
NoDocs == [i \in {} |-> 0]
Payload(kind, id, n, docs) == [kind |-> kind, id |-> id, n |-> n, docs |-> docs]
NoPayload == Payload("none", Null, 0, NoDocs)

Response(status, success, error, payload) ==
    [status |-> status, success |-> success, error |-> error, payload |-> payload]

\* utils.reply: status 200, body {success: true, payload}.
reply(payload) == Response(200, TRUE, "", payload)

\* utils.toError: the given status, body {success: false, error}.
toError(error, status) == Response(status, FALSE, error, NoPayload)

\* fetch returned no response: the exception left the handler.
Unhandled(error) == Response(0, FALSE, error, NoPayload)
\* No response yet: the handler goes on.
Continue == Response(0, TRUE, "", NoPayload)

UnknownUrlMsg == "Unknown URL; try /api/shopping_list instead."
MissingHeaderMsg == "Missing authorization header; try to add the header authorization: REALM_API_KEY."
AuthErrorMsg == "Error with authentication."
NotAllowedMsg == "Method not allowed."
NotFoundMsg == "Document not found"
InternalMsg == "Internal Server Error"
QueryErrorMsg == "Error with query."

\* Messages of the exceptions the collaborators raise ("" is an error
\* object whose message is empty).
ObjectIdMsg == "Argument passed in must be a string of 12 bytes or a string of 24 hex characters"
JsonMsg == "Unexpected token in JSON"
UpstreamMsg == "upstream request failed"
ImmutableMsg == "Performing an update on the path '_id' would modify the immutable field '_id'"
\* What a remote call can do: answer, or reject with / without a message.
NoFault == "none"
Faults == {NoFault, UpstreamMsg, ""}

\* ---------------------------------------------------------------- pure steps
\* Variant: the pattern /[/]+$/, which drops every trailing slash.
StripTrailingSlashes(p) ==
    LET kept == {i \in 1..Len(p) : p[i] # "/"}
        n == IF kept = {} THEN 0 ELSE CHOOSE i \in kept : \A j \in kept : j <= i
    IN  SubSeq(p, 1, n)

\* url.pathname.replace(/[/]$/, ''): drops one trailing slash.
StripTrailingSlash(p) ==
    IF Len(p) > 0 /\ p[Len(p)] = "/" THEN SubSeq(p, 1, Len(p) - 1) ELSE p

\* JavaScript truthiness of the values used here.
Truthy(v) == v \notin {Undefined, Null, JFalse, ""}

\* a || b
OrElse(a, b) == IF Truthy(a) THEN a ELSE b

\* !v
Not(v) == IF Truthy(v) THEN JFalse ELSE JTrue

\* url.searchParams.get('id') || ''
ItemID(param) == OrElse(param, "")

\* new ObjectId(s) accepts a known 24-hex identifier and throws on any
\* other string of this model (the empty string included).
ObjectIdValid(s) == \E i \in 1..Len(OID) : OID[i] = s

\* Variant: the header test is "token === null", which lets "" through.
GateNullOnly(req) ==
    IF StripTrailingSlash(req.pathname) # Target THEN toError(UnknownUrlMsg, 404)
    ELSE IF req.token = Null THEN toError(MissingHeaderMsg, 401)
    ELSE Continue

\* Variant: the header is tested before the path.
GateHeaderFirst(req) ==
    IF ~Truthy(req.token) THEN toError(MissingHeaderMsg, 401)
    ELSE IF StripTrailingSlash(req.pathname) # Target THEN toError(UnknownUrlMsg, 404)
    ELSE Continue

\* The path and header checks that open fetch.
Gate(req) ==
    IF StripTrailingSlash(req.pathname) # Target THEN toError(UnknownUrlMsg, 404)
    ELSE IF ~Truthy(req.token) THEN toError(MissingHeaderMsg, 401)
    ELSE Continue

\* The outer catch: the exception's message, or the generic one.
OuterCatch(msg) == toError(OrElse(msg, QueryErrorMsg), 500)

\* The inner catch of the PATCH and PUT branches.
InnerCatch(msg) == toError(InternalMsg, 500)

\* ---------------------------------------------------------------- the store
Doc(n, p, q) == [name |-> n, purchased |-> p, quantity |-> q]

findOne(coll, id) ==
    IF id \in DOMAIN coll
    THEN Payload("doc", id, 1, [i \in {id} |-> coll[i]])
    ELSE Payload("null", Null, 0, NoDocs)

find(coll) == Payload("list", Null, Cardinality(DOMAIN coll), coll)

InsertDoc(coll, id, d) == [i \in DOMAIN coll \cup {id} |-> IF i = id THEN d ELSE coll[i]]

\* Variant: a filter that matches nothing, so nothing is removed.
deleteNone(coll, id) == coll

\* deleteOne({_id}): the collection without the document.
deleteOne(coll, id) == [i \in DOMAIN coll \ {id} |-> coll[i]]

\* How a property whose value is undefined reaches the store inside a
\* nested document: left out (JSON) or sent as null (extended JSON).
Encodings == {"omit", "null"}
Encode(set, enc) ==
    IF enc = "omit"
    THEN [k \in {f \in DOMAIN set : set[f] # Undefined} |-> set[k]]
    ELSE [k \in DOMAIN set |-> IF set[k] = Undefined THEN Null ELSE set[k]]

\* $set applied to one document (the _id is the key of the collection).
ApplySet(d, set) ==
    [f \in DOMAIN d |-> IF f \in DOMAIN set THEN set[f] ELSE d[f]]

\* updateOne({_id}, {$set}) rejects a $set that would change the _id of
\* the matched document.
UpdateRejected(coll, id, set) ==
    id \in DOMAIN coll /\ "_id" \in DOMAIN set /\ set["_id"] # id

updateOne(coll, id, set) ==
    IF id \in DOMAIN coll
    THEN [coll EXCEPT ![id] = ApplySet(coll[id], set)]
    ELSE coll

UpdateResult(coll, id) == Payload("update", Null, IF id \in DOMAIN coll THEN 1 ELSE 0, NoDocs)

\* ---------------------------------------------------------------- branches
\* POST: the document handed to insertOne.
PostDocument(body) ==
    Doc(body.name, OrElse(body.purchased, JFalse), body.quantity)

\* PATCH: the $set built from the document that was read.
PatchSet(existingDocument) ==
    [f \in {"purchased"} |-> Not(existingDocument.purchased)]

\* PUT: updateObject, all four keys, then the three conditional stores.
UpdateObject(body) ==
    LET initial == [f \in {"name", "purchased", "quantity", "_id"} |->
                        IF f = "_id" THEN Undefined ELSE body[f]]
        withName == IF body.name # Undefined
                    THEN [initial EXCEPT !["name"] = body.name] ELSE initial
        withPurchased == IF body.purchased # Undefined
                         THEN [withName EXCEPT !["purchased"] = body.purchased] ELSE withName
    IN  IF body.quantity # Undefined
        THEN [withPurchased EXCEPT !["quantity"] = body.quantity] ELSE withPurchased

\* The document the store keeps for an encoded one: a key left out of the
\* encoding is a property the document does not have.
StoredDoc(set) ==
    [f \in {"name", "purchased", "quantity"} |-> IF f \in DOMAIN set THEN set[f] ELSE Undefined]

AsFields(d) == [f \in {"name", "purchased", "quantity"} |-> d[f]]

\* ---------------------------------------------------------------- requests in flight
NoDoc == Doc(Undefined, Undefined, Undefined)
WriteCalls == {"insertOne", "updateOne", "deleteOne"}

Slot(pc, req, existing, calls, prior) ==
    [pc |-> pc, req |-> req, existing |-> existing, calls |-> calls, prior |-> prior]
IdleSlot == Slot("idle", NoRequest, NoDoc, {}, "none")

Completed(req, resp, fault, calls, pre, post, chain) ==
    [req |-> req, resp |-> resp, fault |-> fault, calls |-> calls,
     pre |-> pre, post |-> post, chain |-> chain]

\* A PATCH that replied 200 on a document it matched.
IsToggle(c) ==
    /\ c.req.method = "PATCH"
    /\ c.resp.status = 200
    /\ ItemID(c.req.id) \in DOMAIN c.pre

NoToggle == [id |-> Null, before |-> "none"]

\* On arrival: the value 'purchased' had before the PATCH that replied on
\* the same id, when no request has written since that reply.
Prior(req) ==
    IF req.method = "PATCH" /\ toggled.id = ItemID(req.id) THEN toggled.before ELSE "none"

NoCompletion == Completed(NoRequest, Continue, NoFault, {}, NoDocs, NoDocs, "none")

\* The request of slot r ends with resp; post is the collection it leaves.
\* A write ends the "no write since" that the other slots' prior records.
Complete(r, req, resp, fault, calls, post) ==
    /\ slots' = [s \in Slots |->
                    IF s = r THEN IdleSlot
                    ELSE IF calls \cap WriteCalls = {} THEN slots[s]
                    ELSE [slots[s] EXCEPT !.prior = "none"]]
    /\ collection' = post
    /\ last' = Completed(req, resp, fault, calls, collection, post, slots[r].prior)
    /\ toggled' = IF req.method = "PATCH" /\ resp.status = 200 /\ ItemID(req.id) \in DOMAIN collection
                  THEN [id |-> ItemID(req.id), before |-> collection[ItemID(req.id)].purchased]
                  ELSE IF calls \cap WriteCalls = {} THEN toggled
                  ELSE NoToggle

\* Lines 26-39: the request arrives; the path and header checks run before
\* the first await.
Receive(r, req) ==
    /\ slots[r].pc = "idle"
    /\ last = NoCompletion
    /\ IF Gate(req) = Continue
       THEN /\ slots' = [slots EXCEPT ![r] = Slot("logIn", req, NoDoc, {}, Prior(req))]
            /\ UNCHANGED <<collection, last, toggled>>
       ELSE Complete(r, req, Gate(req), NoFault, {}, collection)
    /\ UNCHANGED <<nextId, undefinedAs, deleted>>

\* Lines 41-51: App.logIn answers.  The service accepts a key it knows and
\* may fail on any key; the collection handle is taken outside both try
\* blocks, so an exception there leaves fetch.
LogIn(r) ==
    /\ slots[r].pc = "logIn"
    /\ \/ /\ slots[r].req.token = GoodKey
          /\ slots' = [slots EXCEPT ![r].pc = "method"]
          /\ UNCHANGED <<collection, last, toggled>>
       \/ /\ slots[r].req.token = GoodKey
          /\ Complete(r, slots[r].req, Unhandled(UpstreamMsg), "collection", {}, collection)
       \/ Complete(r, slots[r].req, toError(AuthErrorMsg, 500), "auth", {}, collection)
    /\ UNCHANGED <<nextId, undefinedAs, deleted>>

AtMethod(r, m) == slots[r].pc = "method" /\ slots[r].req.method = m

FaultKind(f) == IF f = NoFault THEN NoFault ELSE "query"

\* Lines 54-68.
GetReply(req, coll, f) ==
    IF Truthy(ItemID(req.id))
    THEN IF ~ObjectIdValid(ItemID(req.id)) THEN OuterCatch(ObjectIdMsg)
         ELSE IF f # NoFault THEN OuterCatch(f)
         ELSE reply(findOne(coll, ItemID(req.id)))
    ELSE IF f # NoFault THEN OuterCatch(f)
         ELSE reply(find(coll))

Get(r) ==
    /\ AtMethod(r, "GET")
    /\ \E f \in Faults :
         LET req == slots[r].req
             thrown == Truthy(ItemID(req.id)) /\ ~ObjectIdValid(ItemID(req.id))
         IN  /\ thrown => f = NoFault
             /\ Complete(r, req, GetReply(req, collection, f), FaultKind(f),
                         IF thrown THEN {}
                         ELSE IF Truthy(ItemID(req.id)) THEN {"findOne"} ELSE {"find"},
                         collection)
    /\ UNCHANGED <<nextId, undefinedAs, deleted>>

\* Lines 71-80.
Post(r) ==
    /\ AtMethod(r, "POST")
    /\ LET req == slots[r].req IN
       IF ~req.body.ok
       THEN /\ Complete(r, req, OuterCatch(JsonMsg), NoFault, {}, collection)
            /\ UNCHANGED nextId
       ELSE \E f \in Faults :
              IF f # NoFault
              THEN /\ Complete(r, req, OuterCatch(f), "query", {"insertOne"}, collection)
                   /\ UNCHANGED nextId
              ELSE /\ nextId < MaxIds
                   /\ nextId' = nextId + 1
                   /\ Complete(r, req, reply(Payload("insertedId", OID[nextId + 1], 1, NoDocs)),
                               NoFault, {"insertOne"},
                               InsertDoc(collection, OID[nextId + 1],
                                         StoredDoc(Encode(AsFields(PostDocument(req.body)),
                                                          undefinedAs))))
    /\ UNCHANGED <<undefinedAs, deleted>>

\* Variant: a missing document is reported by the inner catch.
PatchReadThrows(req, coll, f) ==
    IF ~ObjectIdValid(ItemID(req.id)) THEN InnerCatch(ObjectIdMsg)
    ELSE IF f # NoFault THEN InnerCatch(f)
    ELSE IF findOne(coll, ItemID(req.id)).kind = "null" THEN InnerCatch(NotFoundMsg)
    ELSE Continue

\* Lines 84-89 and 100-107: the read of the PATCH branch.  Continue means
\* the document exists and the write follows.
PatchReadOutcome(req, coll, f) ==
    IF ~ObjectIdValid(ItemID(req.id)) THEN InnerCatch(ObjectIdMsg)
    ELSE IF f # NoFault THEN InnerCatch(f)
    ELSE IF findOne(coll, ItemID(req.id)).kind = "null" THEN toError(NotFoundMsg, 404)
    ELSE Continue

PatchRead(r) ==
    /\ AtMethod(r, "PATCH")
    /\ \E f \in Faults :
         LET req == slots[r].req
             id == ItemID(req.id)
             out == PatchReadOutcome(req, collection, f)
         IN  /\ ~ObjectIdValid(id) => f = NoFault
             /\ IF out = Continue
                THEN /\ slots' = [slots EXCEPT ![r].pc = "updateOne",
                                               ![r].existing = collection[id],
                                               ![r].calls = {"findOne"}]
                     /\ UNCHANGED <<collection, last, toggled>>
                ELSE Complete(r, req, out, FaultKind(f),
                              IF ObjectIdValid(id) THEN {"findOne"} ELSE {}, collection)
    /\ UNCHANGED <<nextId, undefinedAs, deleted>>

\* Lines 90-99: the write of the PATCH branch, from the document read at
\* the previous await.
PatchWrite(r) ==
    /\ slots[r].pc = "updateOne"
    /\ \E f \in Faults :
         LET req == slots[r].req
             id == ItemID(req.id)
             set == Encode(PatchSet(slots[r].existing), undefinedAs)
         IN  IF f # NoFault
             THEN Complete(r, req, InnerCatch(f), "query", {"findOne", "updateOne"}, collection)
             ELSE Complete(r, req, reply(UpdateResult(collection, id)), NoFault,
                           {"findOne", "updateOne"}, updateOne(collection, id, set))
    /\ UNCHANGED <<nextId, undefinedAs, deleted>>

\* Lines 110-145.
Put(r) ==
    /\ AtMethod(r, "PUT")
    /\ \E f \in Faults :
         LET req == slots[r].req
             id == ItemID(req.id)
             set == Encode(UpdateObject(req.body), undefinedAs)
             thrown == ~req.body.ok \/ ~ObjectIdValid(id)
         IN  /\ thrown => f = NoFault
             /\ IF ~req.body.ok THEN Complete(r, req, InnerCatch(JsonMsg), NoFault, {}, collection)
                ELSE IF ~ObjectIdValid(id)
                     THEN Complete(r, req, InnerCatch(ObjectIdMsg), NoFault, {}, collection)
                ELSE IF f # NoFault
                     THEN Complete(r, req, InnerCatch(f), "query", {"updateOne"}, collection)
                ELSE IF UpdateRejected(collection, id, set)
                     THEN Complete(r, req, InnerCatch(ImmutableMsg), NoFault, {"updateOne"},
                                   collection)
                ELSE Complete(r, req, reply(UpdateResult(collection, id)), NoFault,
                              {"updateOne"}, updateOne(collection, id, set))
    /\ UNCHANGED <<nextId, undefinedAs, deleted>>

\* Lines 148-154.
Delete(r) ==
    /\ AtMethod(r, "DELETE")
    /\ \E f \in Faults :
         LET req == slots[r].req
             id == ItemID(req.id)
             n == IF id \in DOMAIN collection THEN 1 ELSE 0
         IN  /\ ~ObjectIdValid(id) => f = NoFault
             /\ IF ~ObjectIdValid(id)
                THEN /\ Complete(r, req, OuterCatch(ObjectIdMsg), NoFault, {}, collection)
                     /\ UNCHANGED deleted
                ELSE IF f # NoFault
                THEN /\ Complete(r, req, OuterCatch(f), "query", {"deleteOne"}, collection)
                     /\ UNCHANGED deleted
                ELSE /\ Complete(r, req, reply(Payload("delete", Null, n, NoDocs)), NoFault,
                                 {"deleteOne"}, deleteOne(collection, id))
                     /\ deleted' = deleted \cup ({id} \cap DOMAIN collection)
    /\ UNCHANGED <<nextId, undefinedAs>>

\* Lines 156-157: none of the five methods.
NotAllowed(r) ==
    /\ slots[r].pc = "method"
    /\ slots[r].req.method \notin {"GET", "POST", "PATCH", "PUT", "DELETE"}
    /\ Complete(r, slots[r].req, toError(NotAllowedMsg, 405), NoFault, {}, collection)
    /\ UNCHANGED <<nextId, undefinedAs, deleted>>

\* The platform hands the response of the completed request to its client.
Deliver ==
    /\ last # NoCompletion
    /\ last' = NoCompletion
    /\ UNCHANGED <<collection, nextId, undefinedAs, slots, toggled, deleted>>

\* ---------------------------------------------------------------- specifications
Init ==
    /\ collection = NoDocs
    /\ nextId = 0
    /\ undefinedAs \in Encodings
    /\ slots = [r \in Slots |-> IdleSlot]
    /\ last = NoCompletion
    /\ toggled = NoToggle
    /\ deleted = {}

NoneInFlight == \A s \in Slots : slots[s].pc = "idle"

\* A client that waits for each reply before it sends the next request.
SeqReceive(r) == NoneInFlight /\ \E req \in Requests : Receive(r, req)

\* The same client, sending the requests of the body scenario.
FieldReceive(r) == NoneInFlight /\ \E req \in FieldRequests : Receive(r, req)

\* Clients that send without waiting.
ConcReceive(r) == \E req \in ConcRequests : Receive(r, req)

Next ==
    \/ Deliver
    \/ \E r \in Slots :
        \/ SeqReceive(r)
        \/ LogIn(r)
        \/ Get(r)
        \/ Post(r)
        \/ PatchRead(r)
        \/ PatchWrite(r)
        \/ Put(r)
        \/ Delete(r)
        \/ NotAllowed(r)

FieldNext ==
    \/ Deliver
    \/ \E r \in Slots :
        \/ FieldReceive(r)
        \/ LogIn(r)
        \/ Get(r)
        \/ Post(r)
        \/ PatchRead(r)
        \/ PatchWrite(r)
        \/ Put(r)
        \/ Delete(r)
        \/ NotAllowed(r)

ConcNext ==
    \/ Deliver
    \/ \E r \in Slots :
        \/ ConcReceive(r)
        \/ LogIn(r)
        \/ Get(r)
        \/ Post(r)
        \/ PatchRead(r)
        \/ PatchWrite(r)
        \/ Put(r)
        \/ Delete(r)
        \/ NotAllowed(r)

Spec == Init /\ [][Next]_vars

FieldSpec == Init /\ [][FieldNext]_vars

ConcSpec == Init /\ [][ConcNext]_vars

\* ---------------------------------------------------------------- properties
\* What the properties read of the request that has just completed.
Done == last # NoCompletion
OnResourcePath == last.req.pathname \in {Target, Target \o <<"/">>}
HeaderMissing == last.req.token \in {Null, ""}
\* The request reached its method branch and no collaborator failed.
Served == Done /\ OnResourcePath /\ ~HeaderMissing /\ last.fault = NoFault
lastId == ItemID(last.req.id)
WellFormedId == \E i \in 1..Len(OID) : OID[i] = lastId
Unwritten == last.post = last.pre /\ last.calls \cap WriteCalls = {}

\* C1: a request whose path is neither /api/shopping_list nor
\* /api/shopping_list/ is answered 404 with the path hint, whatever its
\* method, id, body and authorization header.
C1_UnknownPathIs404 ==
    (Done /\ ~OnResourcePath) =>
        /\ last.resp.status = 404
        /\ last.resp.error = UnknownUrlMsg
        /\ ~last.resp.success

C1_Witness ==
    /\ Done
    /\ last.req.pathname = Target \o <<"/", "/">>
    /\ last.req.method = "DELETE"
    /\ last.req.token = GoodKey
    /\ last.resp.status = 404

\* C2, as stated: a request without an authorization header (absent or
\* empty) is answered 401 on every path and method.
C2_MissingHeaderIs401OnEveryPath ==
    (Done /\ HeaderMissing) => last.resp.status = 401

\* C2, amended: on the resource path, a request without an authorization
\* header (absent or empty) is answered 401, for every method.
C2_MissingHeaderIs401 ==
    (Done /\ HeaderMissing /\ OnResourcePath) =>
        /\ last.resp.status = 401
        /\ last.resp.error = MissingHeaderMsg

C2_Witness ==
    /\ Done
    /\ last.req.token = ""
    /\ last.req.pathname = Target \o <<"/">>
    /\ last.req.method = "POST"
    /\ last.resp.status = 401

\* The document the claim of C3 expects after a PUT: the fields the body
\* gives, and the stored value of every field it omits.
Merged(d, body) ==
    [f \in DOMAIN d |-> IF body[f] # Undefined THEN body[f] ELSE d[f]]

\* C3: a PUT on an existing id stores exactly the fields its body gives;
\* every field the body omits, and every other document, keeps its value.
C3_PutUpdatesOnlyGivenFields ==
    (Served /\ last.req.method = "PUT" /\ last.req.body.ok /\ lastId \in DOMAIN last.pre) =>
        /\ DOMAIN last.post = DOMAIN last.pre
        /\ last.post[lastId] = Merged(last.pre[lastId], last.req.body)
        /\ \A i \in DOMAIN last.pre \ {lastId} : last.post[i] = last.pre[i]

\* C4: a PATCH that toggles negates 'purchased' and changes nothing else;
\* the second of two such PATCHes in a row on one id, with no write in
\* between, leaves 'purchased' as it was before the first.
C4_TogglePairRestores ==
    IsToggle(last) =>
        /\ DOMAIN last.post = DOMAIN last.pre
        /\ last.post[lastId] = [last.pre[lastId] EXCEPT !.purchased = Not(@)]
        /\ \A i \in DOMAIN last.pre \ {lastId} : last.post[i] = last.pre[i]
        /\ last.chain # "none" => last.post[lastId].purchased = last.chain

\* C5, as stated: a PATCH on an id that names no document, the absent id
\* parameter included, is answered 404 "Document not found" and leaves the
\* collection unchanged.
C5_PatchOfNoDocumentIs404 ==
    (Served /\ last.req.method = "PATCH" /\ lastId \notin DOMAIN last.pre) =>
        /\ last.resp.status = 404
        /\ last.resp.error = NotFoundMsg
        /\ Unwritten

\* C5, amended: a PATCH whose id is a well-formed identifier that names no
\* document is answered 404 "Document not found"; a PATCH whose id is
\* absent or malformed is answered 500 "Internal Server Error"; in both
\* cases the collection is unchanged and no write is issued.
C5_PatchOfUnknownIdIs404 ==
    (Served /\ last.req.method = "PATCH" /\ lastId \notin DOMAIN last.pre) =>
        /\ WellFormedId => last.resp.status = 404 /\ last.resp.error = NotFoundMsg
        /\ ~WellFormedId => last.resp.status = 500 /\ last.resp.error = InternalMsg
        /\ ~last.resp.success
        /\ Unwritten

C5_Witness ==
    /\ Served
    /\ last.req.method = "PATCH"
    /\ lastId \in deleted
    /\ last.resp.status = 404
    /\ last.resp.error = NotFoundMsg

\* C6: a DELETE that replies 200 on an existing id removes that document
\* and no other; a removed identifier never names a document again, and
\* every served GET on it replies 200 with success true and payload null.
C6_DeletedStaysGone ==
    /\ (Served /\ last.req.method = "DELETE" /\ last.resp.status = 200
            /\ lastId \in DOMAIN last.pre) =>
          /\ DOMAIN last.post = DOMAIN last.pre \ {lastId}
          /\ \A i \in DOMAIN last.post : last.post[i] = last.pre[i]
          /\ lastId \in deleted
    /\ deleted \cap DOMAIN collection = {}
    /\ (Served /\ last.req.method = "GET" /\ lastId \in deleted) =>
          /\ last.resp.status = 200
          /\ last.resp.success
          /\ last.resp.payload.kind = "null"

C6_Witness ==
    /\ Served
    /\ last.req.method = "GET"
    /\ lastId \in deleted
    /\ DOMAIN collection # {}
    /\ last.resp.status = 200
    /\ last.resp.payload.kind = "null"

\* C7: every stored document's 'purchased' is a boolean.
C7_PurchasedIsBoolean ==
    \A i \in DOMAIN collection : collection[i].purchased \in Booleans

\* C8: every request that got past the header check is answered, and one
\* during which a collaborator failed is answered 500.
C8_EveryFailureIs500 ==
    (Done /\ OnResourcePath /\ ~HeaderMissing) =>
        /\ last.resp.status # 0
        /\ last.fault # NoFault => last.resp.status = 500

\* C9: a PATCH that replies 200 has written, on a document that exists at
\* the moment of the write, the negation of the value stored at that moment.
C9_ToggleNegatesStoredValue ==
    (Done /\ last.req.method = "PATCH" /\ last.resp.status = 200) =>
        /\ lastId \in DOMAIN last.pre
        /\ lastId \in DOMAIN last.post
        /\ last.post[lastId].purchased = Not(last.pre[lastId].purchased)

IsGateError ==
    \/ last.resp.status \in {401, 404, 405} /\ last.resp.error # NotFoundMsg
    \/ last.resp.status = 500 /\ last.resp.error = AuthErrorMsg

\* C10: a request answered by a routing or gate error (404 unknown path,
\* 401, 500 authentication, 405) has called the store not at all and left
\* the collection unchanged; the path is tested first, then the header,
\* then the credential, then the method.
C10_GateErrorsWriteNothing ==
    (Done /\ IsGateError) =>
        /\ last.post = last.pre
        /\ last.calls = {}
        /\ last.resp.status = 404 <=> ~OnResourcePath
        /\ last.resp.status = 401 <=> (OnResourcePath /\ HeaderMissing)
        /\ last.resp.status = 500 => (OnResourcePath /\ ~HeaderMissing /\ last.fault = "auth")
        /\ last.resp.status = 405 =>
              /\ OnResourcePath
              /\ last.req.token = GoodKey
              /\ last.fault = NoFault
              /\ last.req.method \notin {"GET", "POST", "PATCH", "PUT", "DELETE"}

C10_Witness ==
    /\ Done
    /\ last.resp.status = 405
    /\ last.resp.error = NotAllowedMsg
    /\ DOMAIN collection # {}
====
